---- MODULE Spec2Model ----
(***************************************************************************)
(* Quiz / flashcard / answer-grading workflow of Notivora.                 *)
(*                                                                         *)
(* The persistent store is the relational database behind the SQLAlchemy   *)
(* models (notes, flashcards, quizzes).  Every action is one service call  *)
(* or one request handler, run in its own session from query to commit.    *)
(* No operation of the code base inserts a row into the quizzes table      *)
(* (start_or_get_active_quiz builds a Quiz from columns the model does not *)
(* have), so the rows submit_answer works on are part of the database the  *)
(* application is started against: Init ranges over schema-valid contents  *)
(* of that database.                                                       *)
(***************************************************************************)
EXTENDS Integers, Sequences, FiniteSets, TLC

VARIABLES
    notes,          \* notes table: note_id -> row
    flashcards,     \* flashcards table: set of rows
    quizzes,        \* quizzes table: set of rows
    scores,         \* scores table: set of rows
    next_card_id,   \* next value of the flashcards.card_id autoincrement key
    submitted,      \* history: <<user_id, card_id>> of the successful submit_answer calls
    pending,        \* submit_answer calls that have read and graded but not committed
    users,          \* users table: id -> row
    last            \* the last call: operation and what it returned or raised

vars == <<notes, flashcards, quizzes, scores, next_card_id, submitted, pending, users,
         last>>

\* What only the operations of their own section change.
aux == <<pending, users>>

store == <<notes, flashcards, quizzes, next_card_id>>

----------------------------------------------------------------------------
(* Bounds of the model *)

MaxCards == 2        \* longest flashcards_data list handed to save_flashcards
MaxCardId == 4       \* the card_id key stops here
MaxInitCards == 2    \* flashcards of note 1 in the initial database
MaxQuiz == 2         \* rows of the quizzes table
MaxInFlight == 2     \* submit_answer calls running at the same time
MaxUsers == 3        \* rows of the users table
MaxInitScores == 1   \* rows of the scores table in the initial database

NULL == "NULL"       \* SQL NULL / Python None
NULL_ID == 0         \* SQL NULL in the integer column flashcards.note_id

UserIds == {1, 2}
NoteIds == {1, 2, 3}                 \* 3: no such note
CardIds == 1 .. (MaxCardId + 1)      \* MaxCardId + 1: never a stored card
QuizIds == 1 .. (MaxQuiz + 1)        \* MaxQuiz + 1: never a stored quiz
Answers == {"a"}

----------------------------------------------------------------------------
(* HTTP status codes *)

HTTP_OK == 200
HTTP_CREATED == 201
HTTP_BAD_REQUEST == 400
HTTP_FORBIDDEN == 403
HTTP_NOT_FOUND == 404
HTTP_INTERNAL_SERVER_ERROR == 500

----------------------------------------------------------------------------
(* Rows *)

\* A flashcard row as the test fixture and the ORM defaults create it.
Flashcard(card_id, note_id, question, answer, type) ==
    [card_id |-> card_id, note_id |-> note_id, question |-> question,
     answer |-> answer, type |-> type,
     learned |-> FALSE, last_studied |-> NULL, times_reviewed |-> 0]

\* A quiz row that has not been answered yet (answered defaults to False).
Quiz(quiz_id, user_id, card_id) ==
    [quiz_id |-> quiz_id, user_id |-> user_id, card_id |-> card_id,
     answer |-> "", ai_feedback |-> NULL, answered |-> FALSE]

\* A score row: the card a quiz session has recorded as answered.
Score(score_id, quiz_id, card_id) ==
    [score_id |-> score_id, quiz_id |-> quiz_id, card_id |-> card_id,
     checked_answer |-> TRUE, answered |-> "datetime"]

User(username, email) == [username |-> username, email |-> email]

Note(user_id, language, ai_summary) ==
    [user_id |-> user_id, language |-> language, ai_summary |-> ai_summary,
     title |-> "t", original |-> "o"]

\* The flashcards_data dicts: two complete ones, one without its answer key.
CardDicts ==
    { [question |-> "q1", answer |-> "a1"],
      [question |-> "q2", answer |-> "a2", type |-> "mc"],
      [question |-> "q3"] }

SeqsUpTo(S, n) == UNION { [1..k -> S] : k \in 0..n }

CardLists == SeqsUpTo(CardDicts, MaxCards)

----------------------------------------------------------------------------
(* Queries *)

CardsOfNote(note_id) == { f \in flashcards : f.note_id = note_id }

\* round(answered / total * 100, 2), in hundredths of a percent.
Round2Percent(answered, total) ==
    LET num == answered * 10000
        q == num \div total
        r == num % total
    IN  IF 2 * r < total THEN q
        ELSE IF 2 * r > total THEN q + 1
        ELSE IF q % 2 = 0 THEN q ELSE q + 1

\* get_progress reporting a note without flashcards as fully answered.
get_progress_empty_is_complete(user_id, note_id) ==
    LET total == Cardinality(CardsOfNote(note_id))
        answered == Cardinality(
            { q \in quizzes :
                /\ q.user_id = user_id
                /\ q.answered = TRUE
                /\ \E f \in flashcards :
                      f.card_id = q.card_id /\ f.note_id = note_id })
    IN  [total_flashcards |-> total,
         answered_flashcards |-> answered,
         progress_percent |-> IF total # 0 THEN Round2Percent(answered, total) ELSE 10000]

get_progress(user_id, note_id) ==
    LET total == Cardinality(CardsOfNote(note_id))
        answered == Cardinality(
            { q \in quizzes :
                /\ q.user_id = user_id
                /\ q.answered = TRUE
                /\ \E f \in flashcards :
                      f.card_id = q.card_id /\ f.note_id = note_id })
    IN  [total_flashcards |-> total,
         answered_flashcards |-> answered,
         progress_percent |-> IF total # 0 THEN Round2Percent(answered, total) ELSE 0]

----------------------------------------------------------------------------
(* Initial database *)

InitFlashcards(k, m) ==
    { Flashcard(i, 1, "q1", "a1", NULL) : i \in 1..k }
        \cup { Flashcard(k + i, 2, "q2", "a2", NULL) : i \in 1..m }

Init ==
    /\ notes = (1 :> Note(1, "de", "summary") @@ 2 :> Note(2, "en", NULL))
    /\ \E k \in 0..MaxInitCards, m \in 0..1 :
          /\ flashcards = InitFlashcards(k, m)
          /\ next_card_id = k + m + 1
          /\ \E j \in 0..MaxQuiz :
                \E owner \in [1..j -> UserIds], card \in [1..j -> 1..(k + m)] :
                    /\ quizzes = { Quiz(i, owner[i], card[i]) : i \in 1..j }
                    /\ \E s \in 0..MaxInitScores :
                          \E quiz \in [1..s -> 1..j], scard \in [1..s -> 1..(k + m)] :
                              scores = { Score(i, quiz[i], scard[i]) : i \in 1..s }
    /\ submitted = {}
    /\ pending = {}
    /\ users = (1 :> User("u1", "e1") @@ 2 :> User("u2", "e2"))
    /\ last = [op |-> "init"]

----------------------------------------------------------------------------
(* QuizService.get_progress, called *)

\* get_progress writing while it reads: the flashcards of the note are
\* stamped as studied.
call_get_progress_stamping(user_id, note_id) ==
    /\ last' = [op |-> "get_progress", user_id |-> user_id, note_id |-> note_id,
                status |-> "ok", result |-> get_progress(user_id, note_id)]
    /\ flashcards' = { IF f.note_id = note_id
                       THEN [f EXCEPT !.times_reviewed = 1]
                       ELSE f : f \in flashcards }
    /\ UNCHANGED <<notes, quizzes, scores, next_card_id, submitted, aux>>

call_get_progress(user_id, note_id) ==
    /\ last' = [op |-> "get_progress", user_id |-> user_id, note_id |-> note_id,
                status |-> "ok", result |-> get_progress(user_id, note_id)]
    /\ UNCHANGED <<notes, flashcards, quizzes, scores, next_card_id, submitted, aux>>

----------------------------------------------------------------------------
(* The Answer Grader and the external text-generation capability *)

NoKey == "no_key"            \* Config.OPENAI_API_KEY is unset
ApiError == "api_error"      \* the chat-completion call raises
LLMOutcomes == {"Correct.", NoKey, ApiError}

\* check_user_answer_with_llm repeating the chat-completion call once when it
\* raises, before giving the fallback evaluation.
check_user_answer_with_llm_retrying(question, correct_answer, user_answer, language, llm) ==
    IF llm = NoKey
    THEN [raised |-> "ValueError: OPENAI_API_KEY is not set", llm_calls |-> 0,
          result |-> NULL]
    ELSE IF llm = ApiError
    THEN [raised |-> NULL, llm_calls |-> 2,
          result |-> [evaluation |-> "Could not evaluate answer."]]
    ELSE [raised |-> NULL, llm_calls |-> 1, result |-> [evaluation |-> llm]]

\* check_user_answer_with_llm: get_openai_client() raises before the try block
\* when no key is configured; a failure of the call itself is caught and
\* turned into the fallback evaluation; otherwise the model's text is returned.
check_user_answer_with_llm(question, correct_answer, user_answer, language, llm) ==
    IF llm = NoKey
    THEN [raised |-> "ValueError: OPENAI_API_KEY is not set", llm_calls |-> 0,
          result |-> NULL]
    ELSE IF llm = ApiError
    THEN [raised |-> NULL, llm_calls |-> 1,
          result |-> [evaluation |-> "Could not evaluate answer."]]
    ELSE [raised |-> NULL, llm_calls |-> 1, result |-> [evaluation |-> llm]]

\* check_user_answer_with_llm, called: what it raised or returned, and how many
\* chat-completion calls it made, under the outcome llm of the capability.
call_check_user_answer_with_llm(question, correct_answer, user_answer, language, llm) ==
    LET graded == check_user_answer_with_llm(question, correct_answer,
                                             user_answer, language, llm)
    IN  /\ last' = [op |-> "check_user_answer_with_llm", language |-> language,
                    llm |-> llm, raised |-> graded.raised,
                    result |-> graded.result, llm_calls |-> graded.llm_calls]
        /\ UNCHANGED <<notes, flashcards, quizzes, scores, next_card_id, submitted, aux>>

----------------------------------------------------------------------------
(* QuizService.submit_answer *)

\* The quiz row after lines 135-137 when line 136 stores the default of
\* feedback.get("evaluation", "") instead of the evaluation.
AnsweredQuiz_default_feedback(quiz, user_answer, feedback) ==
    [quiz EXCEPT !.answer = user_answer,
                 !.ai_feedback = "",
                 !.answered = TRUE]

\* The quiz row after lines 135-137.
AnsweredQuiz(quiz, user_answer, feedback) ==
    [quiz EXCEPT !.answer = user_answer,
                 !.ai_feedback = feedback.evaluation,
                 !.answered = TRUE]

\* submit_answer without the flashcard lookup of lines 118-120: the quiz row
\* is updated whether or not card_id names a stored flashcard.
submit_answer_unchecked(user_id, quiz_id, card_id, user_answer, llm, commit_ok) ==
    LET quiz_rows == { q \in quizzes : q.quiz_id = quiz_id }
        feedback == [evaluation |-> "Could not evaluate answer."]
    IN  /\ quiz_rows # {}
        /\ quizzes' = (quizzes \ quiz_rows)
                         \cup { AnsweredQuiz(q, user_answer, feedback) : q \in quiz_rows }
        /\ last' = [op |-> "submit_answer", user_id |-> user_id, quiz_id |-> quiz_id,
                    card_id |-> card_id, user_answer |-> user_answer,
                    status |-> "ok", result |-> feedback,
                    llm_calls |-> 1, language |-> "en", llm |-> llm]
        /\ UNCHANGED <<notes, flashcards, next_card_id, scores>>

submit_answer(user_id, quiz_id, card_id, user_answer, llm, commit_ok) ==
    LET args == [op |-> "submit_answer", user_id |-> user_id, quiz_id |-> quiz_id,
                 card_id |-> card_id, user_answer |-> user_answer, llm |-> llm]
        found == { f \in flashcards : f.card_id = card_id }
    IN
    IF found = {}
    THEN /\ last' = args @@ [status |-> "ValueError: Flashcard not found",
                             result |-> NULL, llm_calls |-> 0, language |-> NULL]
         /\ UNCHANGED <<notes, flashcards, quizzes, scores, next_card_id>>
    ELSE
    LET flashcard == CHOOSE f \in found : TRUE
        language == IF flashcard.note_id \in DOMAIN notes
                    THEN notes[flashcard.note_id].language
                    ELSE "en"
        graded == check_user_answer_with_llm(flashcard.question, flashcard.answer,
                                             user_answer, language, llm)
        quiz_rows == { q \in quizzes : q.quiz_id = quiz_id }
    IN
    IF graded.raised # NULL
    THEN /\ last' = args @@ [status |-> graded.raised, result |-> NULL,
                             llm_calls |-> graded.llm_calls, language |-> language]
         /\ UNCHANGED <<notes, flashcards, quizzes, scores, next_card_id>>
    ELSE IF quiz_rows = {}
    THEN /\ last' = args @@ [status |-> "ValueError: Quiz session not found",
                             result |-> NULL, llm_calls |-> graded.llm_calls,
                             language |-> language]
         /\ UNCHANGED <<notes, flashcards, quizzes, scores, next_card_id>>
    ELSE IF ~commit_ok
    THEN /\ last' = args @@ [status |-> "commit failed", result |-> NULL,
                             llm_calls |-> graded.llm_calls, language |-> language]
         /\ UNCHANGED <<notes, flashcards, quizzes, scores, next_card_id>>
    ELSE /\ quizzes' = (quizzes \ quiz_rows)
                          \cup { AnsweredQuiz(q, user_answer, graded.result) : q \in quiz_rows }
         /\ last' = args @@ [status |-> "ok", result |-> graded.result,
                             llm_calls |-> graded.llm_calls, language |-> language]
         /\ UNCHANGED <<notes, flashcards, next_card_id, scores>>

----------------------------------------------------------------------------
(* QuizService.submit_answer, run by several requests at once.  Each request
   has its own session: lines 118-133 read the flashcard, grade the answer and
   load the quiz row; lines 135-140 change the loaded row and commit, which
   writes answer, ai_feedback and answered of the row with that quiz_id. *)

\* Lines 118-133 of a call that passes all three checks.
submit_answer_read(user_id, quiz_id, card_id, user_answer, llm) ==
    LET found == { f \in flashcards : f.card_id = card_id }
        flashcard == CHOOSE f \in found : TRUE
        language == IF flashcard.note_id \in DOMAIN notes
                    THEN notes[flashcard.note_id].language
                    ELSE "en"
        graded == check_user_answer_with_llm(flashcard.question, flashcard.answer,
                                             user_answer, language, llm)
        request == [user_id |-> user_id, quiz_id |-> quiz_id, card_id |-> card_id,
                    user_answer |-> user_answer]
    IN  /\ found # {}
        /\ graded.raised = NULL
        /\ \E q \in quizzes : q.quiz_id = quiz_id
        \* pending is a set: a call equal to one in flight is not started
        /\ \A r \in pending :
              <<r.user_id, r.quiz_id, r.card_id, r.user_answer>>
                  # <<user_id, quiz_id, card_id, user_answer>>
        /\ pending' = pending \cup { request @@ [result |-> graded.result] }
        /\ last' = request @@ [op |-> "submit_answer", status |-> "running"]
        /\ UNCHANGED <<notes, flashcards, quizzes, scores, next_card_id, submitted, users>>

\* Lines 135-142 of the call r: the UPDATE of the row and its commit.
submit_answer_commit(r) ==
    LET quiz_rows == { q \in quizzes : q.quiz_id = r.quiz_id } IN
    /\ r \in pending
    /\ pending' = pending \ {r}
    /\ IF quiz_rows = {}
       THEN /\ last' = [user_id |-> r.user_id, quiz_id |-> r.quiz_id,
                        card_id |-> r.card_id, user_answer |-> r.user_answer,
                        op |-> "submit_answer", status |-> "StaleDataError"]
            /\ UNCHANGED <<quizzes, scores, submitted>>
       ELSE /\ quizzes' = (quizzes \ quiz_rows)
                             \cup { AnsweredQuiz(q, r.user_answer, r.result) : q \in quiz_rows }
            /\ submitted' = submitted \cup {<<r.user_id, r.card_id>>}
            /\ last' = [user_id |-> r.user_id, quiz_id |-> r.quiz_id,
                        card_id |-> r.card_id, user_answer |-> r.user_answer,
                        op |-> "submit_answer", status |-> "ok"]
    /\ UNCHANGED <<notes, flashcards, next_card_id, scores, users>>

----------------------------------------------------------------------------
(* FlashcardService.save_flashcards *)

\* session.delete(card) cascades to the quizzes of the card
\* (Flashcard.quizzes, cascade="all, delete-orphan").
\* Flashcard.quizzes without the delete cascade: the quiz rows of a deleted
\* flashcard stay.
QuizzesAfterDelete_no_cascade(deleted) == quizzes

QuizzesAfterDelete(deleted) ==
    { q \in quizzes : \A f \in deleted : f.card_id # q.card_id }

\* session.delete(card) also cascades to the scores of the card
\* (Flashcard.scores) and to the scores of its deleted quizzes (Quiz.scores).
ScoresAfterDelete(deleted) ==
    { s \in scores :
        /\ \A f \in deleted : f.card_id # s.card_id
        /\ \A q \in quizzes \ QuizzesAfterDelete(deleted) : q.quiz_id # s.quiz_id }

\* card.get('type', '')
CardType(card) == IF "type" \in DOMAIN card THEN card.type ELSE ""

\* The rows of lines 20-30 with question and answer swapped.
NewFlashcards_swapped(note_id, flashcards_data) ==
    { [card_id |-> next_card_id + i - 1,
       note_id |-> note_id,
       question |-> flashcards_data[i].answer,
       answer |-> flashcards_data[i].question,
       type |-> "",
       learned |-> FALSE,
       last_studied |-> NULL,
       times_reviewed |-> 0] : i \in 1..Len(flashcards_data) }

\* The rows lines 20-30 add for flashcards_data, keyed from next_card_id on.
NewFlashcards(note_id, flashcards_data) ==
    { [card_id |-> next_card_id + i - 1,
       note_id |-> note_id,
       question |-> flashcards_data[i].question,
       answer |-> flashcards_data[i].answer,
       type |-> CardType(flashcards_data[i]),
       learned |-> FALSE,
       last_studied |-> NULL,
       times_reviewed |-> 0] : i \in 1..Len(flashcards_data) }

\* card['question'] and card['answer'] raise KeyError on a dict without the key.
WellFormed(flashcards_data) ==
    \A i \in 1..Len(flashcards_data) :
        {"question", "answer"} \subseteq DOMAIN flashcards_data[i]

\* save_flashcards without the delete loop of lines 16-18: the new rows are
\* added to the ones the note already has.
save_flashcards_append(note_id, flashcards_data, commit_ok) ==
    /\ next_card_id + Len(flashcards_data) - 1 <= MaxCardId
    /\ WellFormed(flashcards_data)
    /\ commit_ok
    /\ flashcards' = flashcards \cup NewFlashcards(note_id, flashcards_data)
    /\ next_card_id' = next_card_id + Len(flashcards_data)
    /\ last' = [op |-> "save_flashcards", note_id |-> note_id,
                flashcards_data |-> flashcards_data,
                existing |-> Cardinality(CardsOfNote(note_id)),
                again |-> /\ last.op = "save_flashcards"
                          /\ last.status = "ok"
                          /\ last.note_id = note_id
                          /\ last.flashcards_data = flashcards_data,
                status |-> "ok"]
    /\ UNCHANGED <<notes, quizzes, scores>>

\* The longest prefix of flashcards_data whose dicts have both keys.
RECURSIVE GoodPrefix(_)
GoodPrefix(flashcards_data) ==
    IF flashcards_data = << >> \/ ~WellFormed(<<Head(flashcards_data)>>)
    THEN << >>
    ELSE <<Head(flashcards_data)>> \o GoodPrefix(Tail(flashcards_data))

\* save_flashcards on a session that writes each delete and insert through as
\* it is issued: a KeyError leaves the deletes and the rows added so far.
save_flashcards_write_through(note_id, flashcards_data, commit_ok) ==
    /\ next_card_id + Len(flashcards_data) - 1 <= MaxCardId
    /\ flashcards' = (flashcards \ CardsOfNote(note_id))
                         \cup NewFlashcards(note_id, GoodPrefix(flashcards_data))
    /\ quizzes' = QuizzesAfterDelete(CardsOfNote(note_id))
    /\ scores' = ScoresAfterDelete(CardsOfNote(note_id))
    /\ next_card_id' = next_card_id + Len(GoodPrefix(flashcards_data))
    /\ last' = [op |-> "save_flashcards", note_id |-> note_id,
                flashcards_data |-> flashcards_data,
                existing |-> Cardinality(CardsOfNote(note_id)),
                again |-> FALSE,
                status |-> IF WellFormed(flashcards_data) THEN "ok" ELSE "KeyError"]
    /\ UNCHANGED notes

save_flashcards(note_id, flashcards_data, commit_ok) ==
    LET existing_cards == CardsOfNote(note_id)
        \* existing: the rows the query of line 16 returned;
        \* again: this call repeats the call before it, which succeeded
        args == [op |-> "save_flashcards", note_id |-> note_id,
                 flashcards_data |-> flashcards_data,
                 existing |-> Cardinality(existing_cards),
                 again |-> /\ last.op = "save_flashcards"
                           /\ last.status = "ok"
                           /\ last.note_id = note_id
                           /\ last.flashcards_data = flashcards_data]
    IN
    /\ next_card_id + Len(flashcards_data) - 1 <= MaxCardId
    /\ IF ~WellFormed(flashcards_data)
       THEN /\ last' = args @@ [status |-> "KeyError"]
            /\ UNCHANGED <<notes, flashcards, quizzes, scores, next_card_id>>
       ELSE IF ~commit_ok
       THEN /\ last' = args @@ [status |-> "commit failed"]
            /\ UNCHANGED <<notes, flashcards, quizzes, scores, next_card_id>>
       ELSE /\ flashcards' = (flashcards \ existing_cards)
                                \cup NewFlashcards(note_id, flashcards_data)
            /\ quizzes' = QuizzesAfterDelete(existing_cards)
            /\ scores' = ScoresAfterDelete(existing_cards)
            /\ next_card_id' = next_card_id + Len(flashcards_data)
            \* cascaded: the quiz rows the deletes took with them
            /\ last' = args @@ [status |-> "ok",
                                cascaded |-> Cardinality(quizzes)
                                    - Cardinality(QuizzesAfterDelete(existing_cards))]
            /\ UNCHANGED notes

\* FlashcardService.delete_flashcards_for_note
delete_flashcards_for_note(note_id, commit_ok) ==
    LET cards == CardsOfNote(note_id)
        args == [op |-> "delete_flashcards_for_note", note_id |-> note_id,
                 existing |-> Cardinality(cards)]
    IN
    /\ IF ~commit_ok
       THEN /\ last' = args @@ [status |-> "commit failed"]
            /\ UNCHANGED <<flashcards, quizzes, scores>>
       ELSE /\ flashcards' = flashcards \ cards
            /\ quizzes' = QuizzesAfterDelete(cards)
            /\ scores' = ScoresAfterDelete(cards)
            /\ last' = args @@ [status |-> "ok"]
    /\ UNCHANGED <<notes, next_card_id>>

----------------------------------------------------------------------------
(* POST /llm/generate-flashcard/<note_id> *)

\* What the regular expression of generate_flashcards_from_summary yields:
\* dicts with exactly the keys question and answer.
GeneratedDicts ==
    { [question |-> "q1", answer |-> "a1"],
      [question |-> "q2", answer |-> "a2"] }

\* The outcome of one generation request: no API key, a failing completion
\* call, or a completion whose text parses to cards.
GeneratorOutcomes ==
    { [llm |-> NoKey, cards |-> << >>], [llm |-> ApiError, cards |-> << >>] }
        \cup { [llm |-> "ok", cards |-> c] : c \in SeqsUpTo(GeneratedDicts, MaxCards) }

\* generate_flashcards_from_summary: get_openai_client() raises before the try
\* block; a failing completion call is answered with the empty list.
generate_flashcards_from_summary(ai_summary, language, gen) ==
    IF gen.llm = NoKey
    THEN [raised |-> "ValueError: OPENAI_API_KEY is not set", result |-> << >>]
    ELSE IF gen.llm = ApiError
    THEN [raised |-> NULL, result |-> << >>]
    ELSE [raised |-> NULL, result |-> gen.cards]

\* The rows lines 45-57 of the handler add (type is always '').
RouteNewFlashcards(note_id, flashcards_data) ==
    { [card_id |-> next_card_id + i - 1,
       note_id |-> note_id,
       question |-> flashcards_data[i].question,
       answer |-> flashcards_data[i].answer,
       type |-> "",
       learned |-> FALSE,
       last_studied |-> NULL,
       times_reviewed |-> 0] : i \in 1..Len(flashcards_data) }

\* The flashcards table after lines 42-58 of the handler: the existing cards of
\* the note are deleted and one row is added per generated card, also when
\* the generator returned no card.
FlashcardsAfterRoute(note_id, flashcards_data) ==
    (flashcards \ CardsOfNote(note_id)) \cup RouteNewFlashcards(note_id, flashcards_data)

\* generate_flashcard without the check of note.ai_summary.
generate_flashcard_without_summary(current_user, note_id, gen, commit_ok) ==
    LET args == [op |-> "generate_flashcard", user_id |-> current_user,
                 note_id |-> note_id, existing |-> Cardinality(CardsOfNote(note_id))]
        found == note_id \in DOMAIN notes /\ notes[note_id].user_id = current_user
    IN
    IF ~found
    THEN /\ last' = args @@ [status |-> HTTP_NOT_FOUND, error |-> "Note not found.",
                             flashcards_data |-> << >>]
         /\ UNCHANGED <<notes, flashcards, quizzes, scores, next_card_id>>
    ELSE IF FALSE
    THEN /\ last' = args @@ [status |-> HTTP_NOT_FOUND,
                             error |-> "No summary available for this note.",
                             flashcards_data |-> << >>]
         /\ UNCHANGED <<notes, flashcards, quizzes, scores, next_card_id>>
    ELSE
    LET existing_cards == CardsOfNote(note_id)
        generated == generate_flashcards_from_summary(
                         notes[note_id].ai_summary, notes[note_id].language, gen)
        flashcards_data == generated.result
    IN
    /\ next_card_id + Len(flashcards_data) - 1 <= MaxCardId
    /\ IF generated.raised # NULL
       THEN /\ last' = args @@ [status |-> HTTP_INTERNAL_SERVER_ERROR,
                                error |-> generated.raised,
                                flashcards_data |-> << >>]
            /\ UNCHANGED <<notes, flashcards, quizzes, scores, next_card_id>>
       ELSE IF ~commit_ok
       THEN /\ last' = args @@ [status |-> HTTP_INTERNAL_SERVER_ERROR,
                                error |-> "commit failed",
                                flashcards_data |-> flashcards_data]
            /\ UNCHANGED <<notes, flashcards, quizzes, scores, next_card_id>>
       ELSE /\ flashcards' = FlashcardsAfterRoute(note_id, flashcards_data)
            /\ quizzes' = QuizzesAfterDelete(existing_cards)
            /\ scores' = ScoresAfterDelete(existing_cards)
            /\ next_card_id' = next_card_id + Len(flashcards_data)
            /\ last' = args @@ [status |-> HTTP_CREATED, error |-> NULL,
                                flashcards_data |-> flashcards_data]
            /\ UNCHANGED notes

generate_flashcard(current_user, note_id, gen, commit_ok) ==
    LET args == [op |-> "generate_flashcard", user_id |-> current_user,
                 note_id |-> note_id, existing |-> Cardinality(CardsOfNote(note_id))]
        found == note_id \in DOMAIN notes /\ notes[note_id].user_id = current_user
    IN
    IF ~found
    THEN /\ last' = args @@ [status |-> HTTP_NOT_FOUND, error |-> "Note not found.",
                             flashcards_data |-> << >>]
         /\ UNCHANGED <<notes, flashcards, quizzes, scores, next_card_id>>
    ELSE IF notes[note_id].ai_summary \in {NULL, ""}
    THEN /\ last' = args @@ [status |-> HTTP_NOT_FOUND,
                             error |-> "No summary available for this note.",
                             flashcards_data |-> << >>]
         /\ UNCHANGED <<notes, flashcards, quizzes, scores, next_card_id>>
    ELSE
    LET existing_cards == CardsOfNote(note_id)
        generated == generate_flashcards_from_summary(
                         notes[note_id].ai_summary, notes[note_id].language, gen)
        flashcards_data == generated.result
    IN
    /\ next_card_id + Len(flashcards_data) - 1 <= MaxCardId
    /\ IF generated.raised # NULL
       THEN /\ last' = args @@ [status |-> HTTP_INTERNAL_SERVER_ERROR,
                                error |-> generated.raised,
                                flashcards_data |-> << >>]
            /\ UNCHANGED <<notes, flashcards, quizzes, scores, next_card_id>>
       ELSE IF ~commit_ok
       THEN /\ last' = args @@ [status |-> HTTP_INTERNAL_SERVER_ERROR,
                                error |-> "commit failed",
                                flashcards_data |-> flashcards_data]
            /\ UNCHANGED <<notes, flashcards, quizzes, scores, next_card_id>>
       ELSE /\ flashcards' = FlashcardsAfterRoute(note_id, flashcards_data)
            /\ quizzes' = QuizzesAfterDelete(existing_cards)
            /\ scores' = ScoresAfterDelete(existing_cards)
            /\ next_card_id' = next_card_id + Len(flashcards_data)
            /\ last' = args @@ [status |-> HTTP_CREATED, error |-> NULL,
                                flashcards_data |-> flashcards_data]
            /\ UNCHANGED notes

----------------------------------------------------------------------------
(* LLMService.generate_flashcards *)

\* The flashcards table after lines 33-38 of the service: with an empty
\* generator result the method returns before save_flashcards is called.
FlashcardsAfterService(note_id, flashcards_data) ==
    IF flashcards_data = << >>
    THEN flashcards
    ELSE (flashcards \ CardsOfNote(note_id)) \cup NewFlashcards(note_id, flashcards_data)

generate_flashcards(note_id, user_id, gen, commit_ok) ==
    LET args == [op |-> "generate_flashcards", user_id |-> user_id,
                 note_id |-> note_id, existing |-> Cardinality(CardsOfNote(note_id))]
        found == note_id \in DOMAIN notes /\ notes[note_id].user_id = user_id
    IN
    IF ~found
    THEN /\ last' = args @@ [status |-> "ValueError: Note not found.",
                             flashcards_data |-> << >>]
         /\ UNCHANGED <<notes, flashcards, quizzes, scores, next_card_id>>
    ELSE IF notes[note_id].ai_summary \in {NULL, ""}
    THEN /\ last' = args @@ [status |-> "ValueError: No summary available for this note.",
                             flashcards_data |-> << >>]
         /\ UNCHANGED <<notes, flashcards, quizzes, scores, next_card_id>>
    ELSE
    LET generated == generate_flashcards_from_summary(
                         notes[note_id].ai_summary, notes[note_id].language, gen)
        flashcards_data == generated.result
        existing_cards == CardsOfNote(note_id)
    IN
    /\ next_card_id + Len(flashcards_data) - 1 <= MaxCardId
    /\ IF generated.raised # NULL
       THEN /\ last' = args @@ [status |-> generated.raised, flashcards_data |-> << >>]
            /\ UNCHANGED <<notes, flashcards, quizzes, scores, next_card_id>>
       ELSE IF flashcards_data = << >>
       THEN /\ last' = args @@ [status |-> "ok", flashcards_data |-> flashcards_data]
            /\ UNCHANGED <<notes, flashcards, quizzes, scores, next_card_id>>
       ELSE IF ~commit_ok
       THEN /\ last' = args @@ [status |-> "commit failed",
                                flashcards_data |-> flashcards_data]
            /\ UNCHANGED <<notes, flashcards, quizzes, scores, next_card_id>>
       ELSE /\ flashcards' = FlashcardsAfterService(note_id, flashcards_data)
            /\ quizzes' = QuizzesAfterDelete(existing_cards)
            /\ scores' = ScoresAfterDelete(existing_cards)
            /\ next_card_id' = next_card_id + Len(flashcards_data)
            /\ last' = args @@ [status |-> "ok", flashcards_data |-> flashcards_data]
            /\ UNCHANGED notes

----------------------------------------------------------------------------
(* Starting a quiz *)

\* fc.type or "text"
TypeOrText(type) == IF type \in {NULL, ""} THEN "text" ELSE type

\* get_flashcards_for_quiz returning the answer with every card.
get_flashcards_for_quiz_with_answer(user_id, note_id) ==
    { [card_id |-> f.card_id, question |-> f.question, type |-> TypeOrText(f.type),
       answer |-> f.answer] :
        f \in { g \in flashcards :
                  /\ g.note_id = note_id
                  /\ g.note_id \in DOMAIN notes
                  /\ notes[g.note_id].user_id = user_id } }

\* get_flashcards_for_quiz without the join on the note's owner.
get_flashcards_for_quiz_any_owner(user_id, note_id) ==
    { [card_id |-> f.card_id, question |-> f.question, type |-> TypeOrText(f.type)] :
        f \in CardsOfNote(note_id) }

get_flashcards_for_quiz(user_id, note_id) ==
    { [card_id |-> f.card_id, question |-> f.question, type |-> TypeOrText(f.type)] :
        f \in { g \in flashcards :
                  /\ g.note_id = note_id
                  /\ g.note_id \in DOMAIN notes
                  /\ notes[g.note_id].user_id = user_id } }

\* The response of the view function start_quiz for current_user.
start_quiz_response(current_user, note_id) ==
    LET cards == get_flashcards_for_quiz(current_user, note_id)
    IN  IF cards = {}
        THEN [status |-> HTTP_NOT_FOUND, flashcards |-> {}]
        ELSE [status |-> HTTP_OK, flashcards |-> cards]

\* The view function, called for a logged-in user.
start_quiz(current_user, note_id) ==
    /\ last' = [op |-> "start_quiz", user_id |-> current_user, note_id |-> note_id,
                session_closed |-> TRUE]     \* finally: session.close()
                  @@ start_quiz_response(current_user, note_id)
    /\ UNCHANGED <<notes, flashcards, quizzes, scores, next_card_id>>

\* The blueprints create_app registers.
RegisteredBlueprints == {"ping", "user", "llm", "note"}

\* POST /quiz/start/<note_id> sent by a logged-in user to the application
\* create_app returns: a URL of a blueprint that is not registered matches no
\* rule and is answered 404 by the framework.
post_quiz_start(current_user, note_id) ==
    /\ last' = [op |-> "POST /quiz/start", user_id |-> current_user,
                note_id |-> note_id]
                  @@ (IF "quiz" \in RegisteredBlueprints
                      THEN start_quiz_response(current_user, note_id)
                      ELSE [status |-> HTTP_NOT_FOUND, flashcards |-> {}])
    /\ UNCHANGED <<notes, flashcards, quizzes, scores, next_card_id>>

\* The view function get_progress of quiz.py for a logged-in user: the
\* service always returns a dict, never None, so line 60 is not taken and the
\* answer is 200 with the progress dict.
get_progress_view(current_user, note_id) ==
    LET progress == get_progress(current_user, note_id) IN
    /\ last' = [op |-> "get_progress_view", user_id |-> current_user,
                note_id |-> note_id, session_closed |-> TRUE,
                status |-> HTTP_OK, result |-> progress]
    /\ UNCHANGED <<notes, flashcards, quizzes, scores, next_card_id, submitted, aux>>

\* GET /quiz/progress/<note_id> sent by a logged-in user to the application
\* create_app returns.
get_quiz_progress(current_user, note_id) ==
    /\ last' = [op |-> "GET /quiz/progress", user_id |-> current_user,
                note_id |-> note_id,
                status |-> IF "quiz" \in RegisteredBlueprints
                           THEN HTTP_OK ELSE HTTP_NOT_FOUND,
                result |-> IF "quiz" \in RegisteredBlueprints
                           THEN get_progress(current_user, note_id)
                           ELSE [error |-> "Not Found"]]
    /\ UNCHANGED <<notes, flashcards, quizzes, scores, next_card_id, submitted, aux>>

----------------------------------------------------------------------------
(* Quiz sessions: start_or_get_active_quiz, get_next_flashcard_for_quiz and
   save_user_answer of QuizService.  No route or service calls them; each is
   modelled as one call on a usable session. *)

\* The mapped attributes of class Quiz.
QuizColumns == {"quiz_id", "answer", "ai_feedback", "answered", "card_id", "user_id"}

\* The attributes of Quiz that lines 37-38 and 44 use.
ActiveQuizColumns == {"user_id", "note_id", "completed", "created_at"}

\* start_or_get_active_quiz: Quiz.note_id, the second operand of the filter of
\* line 37, is not an attribute of the class, so building the query raises
\* AttributeError before anything is read or written.  With the attributes
\* the method would return the newest quiz of (user, note) that is not
\* completed, or add one.
start_or_get_active_quiz(user_id, note_id) ==
    LET args == [op |-> "start_or_get_active_quiz", user_id |-> user_id,
                 note_id |-> note_id]
        active == { q \in quizzes :
                      /\ q.user_id = user_id
                      /\ q.note_id = note_id
                      /\ q.completed = FALSE }
        new_id == Cardinality(quizzes) + 1
        quiz == [quiz_id |-> new_id, user_id |-> user_id, note_id |-> note_id,
                 completed |-> FALSE, created_at |-> new_id]
    IN
    IF ~(ActiveQuizColumns \subseteq QuizColumns)
    THEN /\ last' = args @@ [status |-> "AttributeError: Quiz.note_id",
                             returned |-> {}]
         /\ UNCHANGED <<notes, flashcards, quizzes, scores, next_card_id>>
    ELSE IF active # {}
    THEN /\ last' = args @@ [status |-> "ok",
                             returned |-> { q \in active :
                                 \A o \in active : o.created_at <= q.created_at }]
         /\ UNCHANGED <<notes, flashcards, quizzes, scores, next_card_id>>
    ELSE /\ quizzes' = quizzes \cup {quiz}
         /\ last' = args @@ [status |-> "ok", returned |-> {quiz}]
         /\ UNCHANGED <<notes, flashcards, scores, next_card_id>>

\* The flashcards of the note that have no score row in the quiz
\* (lines 80-94).
UnansweredCards(score_rows, quiz_id, note_id) ==
    LET answered_card_ids == { sc.card_id : sc \in { r \in score_rows : r.quiz_id = quiz_id } }
    IN  { f \in CardsOfNote(note_id) : f.card_id \notin answered_card_ids }

\* The dict of lines 95-99.
NextCardDict(card) ==
    [card_id |-> card.card_id, question |-> card.question, type |-> TypeOrText(card.type)]

\* get_next_flashcard_for_quiz: the first flashcard of the note, in the order
\* the query returns them, that has no score row in the quiz.  The query has
\* no ORDER BY, so the first one is any of them.  returned is {} for None.
get_next_flashcard_for_quiz(quiz_id, note_id, card) ==
    LET unanswered == UnansweredCards(scores, quiz_id, note_id) IN
    /\ unanswered # {} => card \in unanswered
    /\ last' = [op |-> "get_next_flashcard_for_quiz", quiz_id |-> quiz_id,
                note_id |-> note_id, status |-> "ok",
                returned |-> IF unanswered = {} THEN {} ELSE {NextCardDict(card)}]
    /\ UNCHANGED <<notes, flashcards, quizzes, scores, next_card_id>>

\* Config.UTC is datetime.timezone.utc, a tzinfo object and not a point in time.
Config_UTC == "timezone.utc"

\* What the DateTime column scores.answered takes as a bound value on the
\* SQLite engine get_engine builds: datetime and date objects.
DateTimeAccepts(value) == value \in {"datetime", "date"}

\* save_user_answer: the Score is built with answered=Config.UTC; the flush of
\* commit() rejects that value (StatementError) and rolls the transaction
\* back, so no score row is stored.  quiz_id and card_id are not checked.
save_user_answer(quiz_id, card_id, correct, commit_ok) ==
    LET args == [op |-> "save_user_answer", quiz_id |-> quiz_id, card_id |-> card_id]
        score == [score_id |-> Cardinality(scores) + 1, quiz_id |-> quiz_id,
                  card_id |-> card_id, checked_answer |-> correct,
                  answered |-> Config_UTC]
    IN
    /\ IF ~DateTimeAccepts(score.answered)
       THEN /\ last' = args @@ [status |-> "StatementError: SQLite DateTime type only accepts Python datetime and date objects as input"]
            /\ UNCHANGED scores
       ELSE IF ~commit_ok
       THEN /\ last' = args @@ [status |-> "commit failed"]
            /\ UNCHANGED scores
       ELSE /\ scores' = scores \cup {score}
            /\ last' = args @@ [status |-> "ok"]
    /\ UNCHANGED <<notes, flashcards, quizzes, next_card_id>>

----------------------------------------------------------------------------
(* Grading requests *)

FieldValues == {NULL, "", "x"}      \* missing, empty, given

\* not all([...]): None and '' are false
Falsy(v) == v \in {NULL, ""}

\* check_answer validating question, correct_answer and user_answer only.
check_answer_three_fields(question, correct_answer, user_answer, language, llm) ==
    LET args == [op |-> "check_answer", question |-> question,
                 correct_answer |-> correct_answer, user_answer |-> user_answer,
                 language |-> language]
        graded == check_user_answer_with_llm(question, correct_answer,
                                             user_answer, language, llm)
    IN
    /\ IF Falsy(question) \/ Falsy(correct_answer) \/ Falsy(user_answer)
       THEN last' = args @@ [status |-> "ValueError: Missing required fields",
                             result |-> NULL, llm_calls |-> 0]
       ELSE IF graded.raised # NULL
       THEN last' = args @@ [status |-> graded.raised, result |-> NULL,
                             llm_calls |-> graded.llm_calls]
       ELSE last' = args @@ [status |-> "ok", result |-> graded.result,
                             llm_calls |-> graded.llm_calls]
    /\ UNCHANGED <<notes, flashcards, quizzes, scores, next_card_id>>

\* LLMService.check_answer
check_answer(question, correct_answer, user_answer, language, llm) ==
    LET args == [op |-> "check_answer", question |-> question,
                 correct_answer |-> correct_answer, user_answer |-> user_answer,
                 language |-> language]
        graded == check_user_answer_with_llm(question, correct_answer,
                                             user_answer, language, llm)
    IN
    /\ IF Falsy(question) \/ Falsy(correct_answer) \/ Falsy(user_answer) \/ Falsy(language)
       THEN last' = args @@ [status |-> "ValueError: Missing required fields",
                             result |-> NULL, llm_calls |-> 0]
       ELSE IF graded.raised # NULL
       THEN last' = args @@ [status |-> graded.raised, result |-> NULL,
                             llm_calls |-> graded.llm_calls]
       ELSE last' = args @@ [status |-> "ok", result |-> graded.result,
                             llm_calls |-> graded.llm_calls]
    /\ UNCHANGED <<notes, flashcards, quizzes, scores, next_card_id>>

\* POST /llm/check-answer with a JSON body holding the four fields
\* (a field left out of the body reads as None).
post_check_answer(question, correct_answer, user_answer, language, llm) ==
    LET args == [op |-> "POST /llm/check-answer", question |-> question,
                 correct_answer |-> correct_answer, user_answer |-> user_answer,
                 language |-> language]
        graded == check_user_answer_with_llm(question, correct_answer,
                                             user_answer, language, llm)
    IN
    /\ IF Falsy(question) \/ Falsy(correct_answer) \/ Falsy(user_answer)
       THEN last' = args @@ [status |-> HTTP_BAD_REQUEST,
                             result |-> [error |-> "Answer field is missing in the request."],
                             llm_calls |-> 0]
       ELSE IF Falsy(language)
       THEN last' = args @@ [status |-> HTTP_BAD_REQUEST,
                             result |-> [error |-> "Missing Language"],
                             llm_calls |-> 0]
       ELSE IF graded.raised # NULL
       THEN last' = args @@ [status |-> HTTP_INTERNAL_SERVER_ERROR,
                             result |-> [error |-> graded.raised],
                             llm_calls |-> graded.llm_calls]
       ELSE last' = args @@ [status |-> HTTP_OK, result |-> graded.result,
                             llm_calls |-> graded.llm_calls]
    /\ UNCHANGED <<notes, flashcards, quizzes, scores, next_card_id>>

----------------------------------------------------------------------------
(* User routes.  Every handler opens a session first; session_closed tells
   whether session.close() ran before the handler returned. *)

UserNames == {"", "u1", "u2", "u3"}
Emails == {"", "e1", "e2", "e3"}
Passwords == {"", "pw"}

\* create_user without the email lookup of lines 46-47.
create_user_no_email_check(username, email, password, commit_ok) ==
    LET args == [op |-> "create_user", username |-> username, email |-> email]
        new_id == Cardinality(DOMAIN users) + 1
    IN
    /\ IF username = "" \/ email = "" \/ password = ""
       THEN /\ last' = args @@ [status |-> HTTP_BAD_REQUEST,
                                error |-> "USERNAME_EMAIL_PASSWORD_REQUIRED",
                                session_closed |-> FALSE]
            /\ UNCHANGED users
       ELSE IF \E id \in DOMAIN users : users[id].username = username
       THEN /\ last' = args @@ [status |-> HTTP_BAD_REQUEST,
                                error |-> "USER_ALREADY_EXISTS",
                                session_closed |-> FALSE]
            /\ UNCHANGED users
       ELSE /\ new_id <= MaxUsers
            /\ users' = users @@ (new_id :> User(username, email))
            /\ last' = args @@ [status |-> HTTP_CREATED, error |-> NULL,
                                session_closed |-> TRUE]
    /\ UNCHANGED <<notes, flashcards, quizzes, scores, next_card_id, submitted, pending>>

\* POST /user/create-user
create_user(username, email, password, commit_ok) ==
    LET args == [op |-> "create_user", username |-> username, email |-> email]
        new_id == Cardinality(DOMAIN users) + 1
    IN
    /\ IF username = "" \/ email = "" \/ password = ""
       THEN /\ last' = args @@ [status |-> HTTP_BAD_REQUEST,
                                error |-> "USERNAME_EMAIL_PASSWORD_REQUIRED",
                                session_closed |-> FALSE]
            /\ UNCHANGED users
       ELSE IF \E id \in DOMAIN users : users[id].username = username
       THEN /\ last' = args @@ [status |-> HTTP_BAD_REQUEST,
                                error |-> "USER_ALREADY_EXISTS",
                                session_closed |-> FALSE]
            /\ UNCHANGED users
       ELSE IF \E id \in DOMAIN users : users[id].email = email
       THEN /\ last' = args @@ [status |-> HTTP_BAD_REQUEST,
                                error |-> "EMAIL_ALREADY_EXISTS",
                                session_closed |-> FALSE]
            /\ UNCHANGED users
       ELSE IF ~commit_ok
       THEN /\ last' = args @@ [status |-> HTTP_INTERNAL_SERVER_ERROR,
                                error |-> "commit failed", session_closed |-> TRUE]
            /\ UNCHANGED users
       ELSE /\ new_id <= MaxUsers
            /\ users' = users @@ (new_id :> User(username, email))
            /\ last' = args @@ [status |-> HTTP_CREATED, error |-> NULL,
                                session_closed |-> TRUE]
    /\ UNCHANGED <<notes, flashcards, quizzes, scores, next_card_id, submitted, pending>>

\* GET /user/get-user/<user_id>
get_user(current_user, user_id) ==
    LET args == [op |-> "get_user", current_user |-> current_user, user_id |-> user_id] IN
    /\ IF user_id \notin DOMAIN users
       THEN last' = args @@ [status |-> HTTP_NOT_FOUND, user_data |-> NULL,
                             session_closed |-> FALSE]
       ELSE IF user_id # current_user
       THEN last' = args @@ [status |-> HTTP_FORBIDDEN, user_data |-> NULL,
                             session_closed |-> FALSE]
       ELSE last' = args @@ [status |-> HTTP_OK, user_data |-> users[user_id],
                             session_closed |-> TRUE]
    /\ UNCHANGED <<notes, flashcards, quizzes, scores, next_card_id, submitted, pending, users>>

\* PUT /user/update-user/<user_id>
update_user(current_user, user_id, username, email, commit_ok) ==
    LET args == [op |-> "update_user", current_user |-> current_user,
                 user_id |-> user_id, username |-> username, email |-> email]
        new_name == IF username # "" THEN username ELSE users[user_id].username
        new_email == IF email # "" THEN email ELSE users[user_id].email
    IN
    /\ IF user_id \notin DOMAIN users
       THEN /\ last' = args @@ [status |-> HTTP_NOT_FOUND, session_closed |-> FALSE]
            /\ UNCHANGED users
       ELSE IF user_id # current_user
       THEN /\ last' = args @@ [status |-> HTTP_FORBIDDEN, session_closed |-> FALSE]
            /\ UNCHANGED users
       ELSE IF /\ username # ""
               /\ \E id \in DOMAIN users \ {user_id} : users[id].username = username
       THEN /\ last' = args @@ [status |-> HTTP_BAD_REQUEST, session_closed |-> FALSE]
            /\ UNCHANGED users
       ELSE IF /\ email # ""
               /\ \E id \in DOMAIN users \ {user_id} : users[id].email = email
       THEN /\ last' = args @@ [status |-> HTTP_BAD_REQUEST, session_closed |-> FALSE]
            /\ UNCHANGED users
       ELSE IF ~commit_ok
       THEN /\ last' = args @@ [status |-> HTTP_INTERNAL_SERVER_ERROR,
                                session_closed |-> TRUE]
            /\ UNCHANGED users
       ELSE /\ users' = [users EXCEPT ![user_id] = User(new_name, new_email)]
            /\ last' = args @@ [status |-> HTTP_OK, session_closed |-> TRUE]
    /\ UNCHANGED <<notes, flashcards, quizzes, scores, next_card_id, submitted, pending>>

\* DELETE /user/delete-user/<user_id>: Flashcard has no user_id attribute, so
\* the filter_by of line 177 raises and the except branch rolls back the
\* deletion of the notes issued on line 176.
delete_user(current_user, user_id) ==
    LET args == [op |-> "delete_user", current_user |-> current_user, user_id |-> user_id] IN
    /\ IF user_id \notin DOMAIN users
       THEN last' = args @@ [status |-> HTTP_NOT_FOUND, session_closed |-> FALSE]
       ELSE IF user_id # current_user
       THEN last' = args @@ [status |-> HTTP_FORBIDDEN, session_closed |-> FALSE]
       ELSE last' = args @@ [status |-> HTTP_INTERNAL_SERVER_ERROR,
                             session_closed |-> TRUE]
    /\ UNCHANGED <<notes, flashcards, quizzes, scores, next_card_id, submitted, pending, users>>

\* POST /user/request-password-reset; mail_ok: send_reset_email returns.
request_password_reset(email, mail_ok) ==
    LET args == [op |-> "request_password_reset", email |-> email] IN
    /\ IF email = ""
       THEN last' = args @@ [status |-> HTTP_BAD_REQUEST, session_closed |-> FALSE]
       ELSE IF ~\E id \in DOMAIN users : users[id].email = email
       THEN last' = args @@ [status |-> HTTP_NOT_FOUND, session_closed |-> FALSE]
       ELSE IF ~mail_ok
       THEN last' = args @@ [status |-> HTTP_INTERNAL_SERVER_ERROR,
                             session_closed |-> FALSE]
       ELSE last' = args @@ [status |-> HTTP_OK, session_closed |-> TRUE]
    /\ UNCHANGED <<notes, flashcards, quizzes, scores, next_card_id, submitted, pending, users>>

----------------------------------------------------------------------------
(* Note routes over NoteService *)

Titles == {NULL, "t2"}
Contents == {NULL, "o2"}

\* NoteService.get_note_by_id without the filter on the owner.
get_note_by_id_any_owner(note_id, user_id) ==
    IF note_id \in DOMAIN notes THEN note_id ELSE NULL_ID

\* NoteService.get_note_by_id: the key of the note found, or NULL_ID for None.
get_note_by_id(note_id, user_id) ==
    IF note_id \in DOMAIN notes /\ notes[note_id].user_id = user_id
    THEN note_id
    ELSE NULL_ID

\* GET /note/get-note/<note_id>
get_note(current_user, note_id) ==
    LET args == [op |-> "get_note", user_id |-> current_user, note_id |-> note_id]
        note == get_note_by_id(note_id, current_user)
    IN
    /\ IF note = NULL_ID
       THEN last' = args @@ [status |-> HTTP_NOT_FOUND, body |-> "NOTE_NOT_FOUND"]
       ELSE last' = args @@ [status |-> HTTP_OK, body |-> notes[note].ai_summary]
    /\ UNCHANGED <<notes, flashcards, quizzes, scores, next_card_id, submitted, aux>>

\* PUT /note/update-note/<note_id> over NoteService.update_note
update_note(current_user, note_id, title, content, commit_ok) ==
    LET args == [op |-> "update_note", user_id |-> current_user, note_id |-> note_id]
        found == note_id \in DOMAIN notes /\ notes[note_id].user_id = current_user
    IN
    /\ IF ~found
       THEN /\ last' = args @@ [status |-> HTTP_NOT_FOUND, body |-> "NOTE_NOT_FOUND"]
            /\ UNCHANGED notes
       ELSE IF ~commit_ok
       THEN /\ last' = args @@ [status |-> HTTP_INTERNAL_SERVER_ERROR,
                                body |-> "commit failed"]
            /\ UNCHANGED notes
       ELSE /\ notes' = [notes EXCEPT
                            ![note_id].title = IF title # NULL THEN title ELSE @,
                            ![note_id].original = IF content # NULL THEN content ELSE @]
            /\ last' = args @@ [status |-> HTTP_OK, body |-> "Note updated successfully"]
    /\ UNCHANGED <<flashcards, quizzes, scores, next_card_id, submitted, aux>>

\* DELETE /note/delete-note/<note_id> over NoteService.delete_note.
\* Note.flashcards declares no delete cascade: deleting the note sets the
\* nullable flashcards.note_id of its flashcards to NULL and keeps the rows.
delete_note(current_user, note_id, commit_ok) ==
    LET args == [op |-> "delete_note", user_id |-> current_user, note_id |-> note_id]
        found == note_id \in DOMAIN notes /\ notes[note_id].user_id = current_user
    IN
    /\ IF ~found
       THEN /\ last' = args @@ [status |-> HTTP_NOT_FOUND, body |-> "NOTE_NOT_FOUND"]
            /\ UNCHANGED <<notes, flashcards>>
       ELSE IF ~commit_ok
       THEN /\ last' = args @@ [status |-> HTTP_INTERNAL_SERVER_ERROR,
                                body |-> "commit failed"]
            /\ UNCHANGED <<notes, flashcards>>
       ELSE /\ notes' = [n \in DOMAIN notes \ {note_id} |-> notes[n]]
            /\ flashcards' = { IF f.note_id = note_id
                               THEN [f EXCEPT !.note_id = NULL_ID]
                               ELSE f : f \in flashcards }
            /\ last' = args @@ [status |-> HTTP_OK, body |-> "Note deleted successfully"]
    /\ UNCHANGED <<quizzes, scores, next_card_id, submitted, aux>>

----------------------------------------------------------------------------
(* POST /llm/generate-summary/<note_id> *)

\* What generate_summary_from_note returns: the summary and language of the
\* model's JSON answer, an answer without a language, or, when the call
\* fails, the fallback summary with an empty language.  With no API key
\* get_openai_client raises before the try block.
SummaryOutcomes ==
    { [raised |-> NULL, summary |-> "summary", language |-> "de"],
      [raised |-> NULL, summary |-> "summary", language |-> ""],
      [raised |-> NULL, summary |-> "Summary could not be generated.", language |-> ""],
      [raised |-> "ValueError: OPENAI_API_KEY is not set", summary |-> NULL,
       language |-> NULL] }

generate_summary(current_user, note_id, generated, commit_ok) ==
    LET args == [op |-> "generate_summary", user_id |-> current_user, note_id |-> note_id]
        found == note_id \in DOMAIN notes /\ notes[note_id].user_id = current_user
    IN
    /\ IF ~found
       THEN /\ last' = args @@ [status |-> HTTP_NOT_FOUND]
            /\ UNCHANGED notes
       ELSE IF notes[note_id].original \in {NULL, ""}
       THEN /\ last' = args @@ [status |-> HTTP_BAD_REQUEST]
            /\ UNCHANGED notes
       ELSE IF generated.raised # NULL \/ ~commit_ok
       THEN /\ last' = args @@ [status |-> HTTP_INTERNAL_SERVER_ERROR]
            /\ UNCHANGED notes
       ELSE /\ notes' = [notes EXCEPT ![note_id].ai_summary = generated.summary,
                                      ![note_id].language = generated.language]
            /\ last' = args @@ [status |-> HTTP_OK]
    /\ UNCHANGED <<flashcards, quizzes, scores, next_card_id, submitted, aux>>

----------------------------------------------------------------------------
(* Specifications *)

StoredCardIds == { f.card_id : f \in flashcards }
StoredQuizIds == { q.quiz_id : q \in quizzes }

\* The initial databases with an empty scores table.
InitNoScores == Init /\ scores = {}

\* The initial databases with at most one quiz row, with or without scores.
InitSession == Init /\ Cardinality(quizzes) <= 1

\* The initial databases with at most one quiz row.
InitOneQuiz == InitNoScores /\ Cardinality(quizzes) <= 1

\* Quiz attempts: submit_answer and get_progress on the stored rows.
NextQuiz ==
    \/ \E u \in UserIds, n \in NoteIds :
          call_get_progress(u, n)
    \/ \E l \in {"en", "de"}, llm \in LLMOutcomes :
          call_check_user_answer_with_llm("q1", "a1", "a", l, llm)
    \/ \E u \in UserIds, q \in StoredQuizIds \cup {MaxQuiz + 1},
          c \in StoredCardIds \cup {MaxCardId + 1}, a \in Answers,
          llm \in LLMOutcomes, ok \in BOOLEAN :
            submit_answer(u, q, c, a, llm, ok) /\ UNCHANGED <<submitted, aux>>

SpecQuiz == InitOneQuiz /\ [][NextQuiz]_vars

\* Reading the progress, by the service, the view function and the
\* application, between submissions.
NextReads ==
    \/ \E u \in UserIds, n \in NoteIds : call_get_progress(u, n)
    \/ \E u \in UserIds, n \in NoteIds : get_progress_view(u, n)
    \/ \E u \in UserIds, n \in NoteIds : get_quiz_progress(u, n)
    \/ \E u \in UserIds, q \in StoredQuizIds, c \in StoredCardIds, a \in Answers :
          submit_answer(u, q, c, a, "Correct.", TRUE) /\ UNCHANGED <<submitted, aux>>

SpecReads == InitSession /\ [][NextReads]_vars

\* Everything that deletes or detaches flashcards; every commit succeeds.
NextIntegrity ==
    \/ \E n \in DOMAIN notes, cards \in SeqsUpTo({[question |-> "q1", answer |-> "a1"]}, 1) :
            save_flashcards(n, cards, TRUE) /\ UNCHANGED <<submitted, aux>>
    \/ \E n \in NoteIds :
            delete_flashcards_for_note(n, TRUE) /\ UNCHANGED <<submitted, aux>>
    \/ \E n \in DOMAIN notes :
          \E gen \in { g \in GeneratorOutcomes : Len(g.cards) <= 1 } :
              generate_flashcard(notes[n].user_id, n, gen, TRUE)
                  /\ UNCHANGED <<submitted, aux>>
    \/ \E n \in DOMAIN notes : delete_note(notes[n].user_id, n, TRUE)
    \/ \E u \in UserIds : delete_user(u, u)

SpecIntegrity == InitSession /\ [][NextIntegrity]_vars

\* Generating flashcards through the route handler and through the service.
NextGenerate ==
    \/ \E u \in UserIds, n \in NoteIds, ok \in BOOLEAN :
          \E gen \in { g \in GeneratorOutcomes : Len(g.cards) <= 1 } :
              generate_flashcard(u, n, gen, ok) /\ UNCHANGED <<submitted, aux>>
    \/ \E u \in UserIds, n \in NoteIds, ok \in BOOLEAN :
          \E gen \in { g \in GeneratorOutcomes : Len(g.cards) <= 1 } :
              generate_flashcards(n, u, gen, ok) /\ UNCHANGED <<submitted, aux>>

SpecGenerate == InitOneQuiz /\ [][NextGenerate]_vars

\* A quiz session: asking for the next flashcard and recording it, next to
\* starting a quiz, submitting answers and reading the progress.
NextSession ==
    \/ \E u \in UserIds, n \in NoteIds :
          start_or_get_active_quiz(u, n) /\ UNCHANGED <<submitted, aux>>
    \/ \E q \in StoredQuizIds, n \in NoteIds, c \in flashcards :
          get_next_flashcard_for_quiz(q, n, c) /\ UNCHANGED <<submitted, aux>>
    \/ \E q \in StoredQuizIds, n \in NoteIds :
          /\ CardsOfNote(n) = {}
          /\ get_next_flashcard_for_quiz(q, n, NULL) /\ UNCHANGED <<submitted, aux>>
    \/ \E q \in StoredQuizIds, c \in StoredCardIds, ok \in BOOLEAN :
          save_user_answer(q, c, TRUE, ok) /\ UNCHANGED <<submitted, aux>>
    \/ \E u \in UserIds, n \in NoteIds : start_quiz(u, n) /\ UNCHANGED <<submitted, aux>>
    \/ \E u \in UserIds, q \in StoredQuizIds, c \in StoredCardIds, a \in Answers :
          submit_answer(u, q, c, a, "Correct.", TRUE) /\ UNCHANGED <<submitted, aux>>
    \/ \E u \in UserIds, n \in NoteIds : call_get_progress(u, n)

\* Sessions on a database that may hold a score row.
SpecSession == InitSession /\ [][NextSession]_vars

\* Sessions on a database without score rows.
SpecCompletion == InitOneQuiz /\ [][NextSession]_vars

\* Progress against the history of submissions: every successful
\* submit_answer(user_id, card_id) is recorded in submitted, and a replaced
\* flashcard is forgotten.
NextProgress ==
    \/ \E u \in UserIds, q \in StoredQuizIds \cup {MaxQuiz + 1},
          c \in StoredCardIds \cup {MaxCardId + 1}, a \in Answers :
            /\ submit_answer(u, q, c, a, "Correct.", TRUE)
            /\ submitted' = IF last'.status = "ok"
                            THEN submitted \cup {<<u, c>>}
                            ELSE submitted
            /\ UNCHANGED aux
    \/ \E n \in DOMAIN notes, cards \in SeqsUpTo({[question |-> "q1", answer |-> "a1"]}, 1) :
            /\ save_flashcards(n, cards, TRUE)
            /\ submitted' = { p \in submitted : p[2] \in StoredCardIds' }
            /\ UNCHANGED aux

SpecProgress == InitNoScores /\ [][NextProgress]_vars

\* Replacing the flashcards of a note.
NextCards ==
    \/ \E n \in DOMAIN notes, cards \in CardLists, ok \in BOOLEAN :
          save_flashcards(n, cards, ok) /\ UNCHANGED <<submitted, aux>>
    \/ \E u \in UserIds, n \in NoteIds, gen \in GeneratorOutcomes, ok \in BOOLEAN :
          generate_flashcard(u, n, gen, ok) /\ UNCHANGED <<submitted, aux>>

SpecCards == InitOneQuiz /\ [][NextCards]_vars

\* Starting a quiz, through the view function and through the application.
NextStart ==
    \/ \E u \in UserIds, n \in NoteIds : start_quiz(u, n) /\ UNCHANGED <<submitted, aux>>
    \/ \E u \in UserIds, n \in NoteIds : post_quiz_start(u, n) /\ UNCHANGED <<submitted, aux>>

SpecStart == InitNoScores /\ [][NextStart]_vars

\* Grading requests, through the service and through the route.
NextGrader ==
    \/ \E q \in FieldValues, c \in FieldValues, a \in FieldValues,
          l \in FieldValues, llm \in LLMOutcomes :
            check_answer(q, c, a, l, llm) /\ UNCHANGED <<submitted, aux>>
    \/ \E q \in FieldValues, c \in FieldValues, a \in FieldValues,
          l \in FieldValues, llm \in LLMOutcomes :
            post_check_answer(q, c, a, l, llm) /\ UNCHANGED <<submitted, aux>>

\* Grading reads no table: the initial databases without quiz rows.
InitGrader == Init /\ quizzes = {}

SpecGrader == InitGrader /\ [][NextGrader]_vars

\* Simultaneous submissions: up to MaxInFlight calls read before the first of
\* them commits, then commit in any order.
NextConcurrent ==
    \/ \E u \in UserIds, q \in StoredQuizIds, c \in StoredCardIds, a \in Answers :
          /\ Cardinality(pending) < MaxInFlight
          /\ submitted = {}
          /\ submit_answer_read(u, q, c, a, "Correct.")
    \/ \E r \in pending : submit_answer_commit(r)

SpecConcurrent == InitNoScores /\ [][NextConcurrent]_vars

\* The user routes.
NextUsers ==
    \/ \E n \in UserNames, e \in Emails, p \in Passwords, ok \in BOOLEAN :
          create_user(n, e, p, ok)
    \/ \E cu \in DOMAIN users, id \in 1..(MaxUsers + 1) : get_user(cu, id)
    \/ \E cu \in DOMAIN users, id \in 1..(MaxUsers + 1),
          n \in UserNames, e \in Emails, ok \in BOOLEAN :
            update_user(cu, id, n, e, ok)
    \/ \E cu \in DOMAIN users, id \in 1..(MaxUsers + 1) : delete_user(cu, id)
    \/ \E e \in Emails, ok \in BOOLEAN : request_password_reset(e, ok)

\* The user routes read no flashcard and no quiz row.
InitUsers == Init /\ flashcards = {} /\ quizzes = {}

SpecUsers == InitUsers /\ [][NextUsers]_vars

\* The note routes, and the deletion of the notes' owner.
NextNotes ==
    \/ \E cu \in UserIds, n \in NoteIds : get_note(cu, n)
    \/ \E cu \in UserIds, n \in NoteIds, t \in Titles, c \in Contents, ok \in BOOLEAN :
          update_note(cu, n, t, c, ok)
    \/ \E cu \in UserIds, n \in NoteIds, ok \in BOOLEAN : delete_note(cu, n, ok)
    \/ \E cu \in UserIds, id \in 1..(MaxUsers + 1) : delete_user(cu, id)

SpecNotes == InitOneQuiz /\ [][NextNotes]_vars

\* The language submit_answer grades in: summaries set the language of a
\* note, deleting a note detaches its flashcards.
NextLanguage ==
    \/ \E cu \in UserIds, n \in DOMAIN notes, g \in SummaryOutcomes, ok \in BOOLEAN :
          generate_summary(cu, n, g, ok)
    \/ \E cu \in UserIds, n \in DOMAIN notes : delete_note(cu, n, TRUE)
    \/ \E u \in UserIds, q \in StoredQuizIds, c \in StoredCardIds, a \in Answers :
          submit_answer(u, q, c, a, "Correct.", TRUE) /\ UNCHANGED <<submitted, aux>>

SpecLanguage == InitOneQuiz /\ [][NextLanguage]_vars

\* Summaries and the flashcards generated from them; a generation yields at
\* most one card here.
NextSummary ==
    \/ \E cu \in UserIds, n \in NoteIds, g \in SummaryOutcomes, ok \in BOOLEAN :
          generate_summary(cu, n, g, ok)
    \/ \E u \in UserIds, n \in NoteIds, ok \in BOOLEAN :
          \E gen \in { g \in GeneratorOutcomes : Len(g.cards) <= 1 } :
              generate_flashcard(u, n, gen, ok) /\ UNCHANGED <<submitted, aux>>

SpecSummary == InitGrader /\ [][NextSummary]_vars

Next == NextSession \/ NextGenerate \/ NextIntegrity \/ NextReads \/ NextSummary \/ NextLanguage \/ NextNotes \/ NextUsers \/ NextConcurrent \/ NextQuiz \/ NextProgress \/ NextCards \/ NextStart \/ NextGrader

Spec == Init /\ [][Next]_vars

----------------------------------------------------------------------------
(* Claims *)

\* C1: whatever flashcards were replaced and whatever answers were submitted,
\* get_progress(user, note) reports a progress_percent between 0 and 100
\* (0 .. 10000 hundredths).
C1_ProgressPercentInRange ==
    \A u \in UserIds, n \in NoteIds :
        /\ get_progress(u, n).progress_percent >= 0
        /\ get_progress(u, n).progress_percent <= 10000

\* The flashcards of the note the user has submitted an answer for.
SubmittedCards(user_id, note_id) ==
    { f \in CardsOfNote(note_id) : <<user_id, f.card_id>> \in submitted }

\* C2: with N flashcards on the note and answers submitted by the user for
\* exactly K distinct ones, get_progress returns total N, answered K and
\* round(K / N * 100, 2) percent; for N = 3 that is 33.33 after one answer
\* and 100.0 after three.
C2_ProgressCountsSubmittedFlashcards ==
    \A u \in UserIds, n \in NoteIds :
        LET N == Cardinality(CardsOfNote(n))
            K == Cardinality(SubmittedCards(u, n))
        IN  N > 0 =>
              /\ get_progress(u, n) =
                    [total_flashcards |-> N, answered_flashcards |-> K,
                     progress_percent |-> Round2Percent(K, N)]
              /\ (N = 3 /\ K = 1) => get_progress(u, n).progress_percent = 3333
              /\ (N = 3 /\ K = 3) => get_progress(u, n).progress_percent = 10000

\* C3: a successful submit_answer adds exactly one quiz row, carrying the
\* submitting user, the answered flashcard, the answer text and answered = TRUE,
\* and changes none of the rows that were there before.
C3_SubmitAppendsOneAttempt ==
    [][ (last'.op = "submit_answer" /\ last'.status = "ok") =>
            /\ quizzes \subseteq quizzes'
            /\ \E row \in quizzes' \ quizzes :
                  /\ quizzes' = quizzes \cup {row}
                  /\ row.user_id = last'.user_id
                  /\ row.card_id = last'.card_id
                  /\ row.answer = last'.user_answer
                  /\ row.answered = TRUE ]_vars

\* C4: submit_answer for a card_id that names no stored flashcard raises
\* "Flashcard not found", writes no quiz row and leaves every table as it was.
C4_UnknownFlashcardRejected ==
    [][ (last'.op = "submit_answer" /\ last'.card_id \notin StoredCardIds) =>
            /\ last'.status = "ValueError: Flashcard not found"
            /\ quizzes' = quizzes
            /\ flashcards' = flashcards
            /\ notes' = notes
            /\ next_card_id' = next_card_id ]_vars

\* C4 witness: with quiz rows in the store, a submission for an unknown
\* flashcard has been rejected.
C4_Witness ==
    /\ last.op = "submit_answer"
    /\ last.card_id \notin StoredCardIds
    /\ last.quiz_id \in StoredQuizIds
    /\ last.status = "ValueError: Flashcard not found"

\* Whether a start-quiz call named a note that is missing, owned by another
\* user, or without flashcards.
NoQuizFor(user_id, note_id) ==
    \/ note_id \notin DOMAIN notes
    \/ notes[note_id].user_id # user_id
    \/ CardsOfNote(note_id) = {}

\* C5: starting a quiz for a note that is missing, owned by someone else or
\* without flashcards is answered 404 with no flashcards, and no response
\* ever holds a flashcard of a note the requesting user does not own.
C5_ForeignQuizNotFound ==
    last.op \in {"start_quiz", "POST /quiz/start"} =>
        /\ NoQuizFor(last.user_id, last.note_id) =>
              (last.status = HTTP_NOT_FOUND /\ last.flashcards = {})
        /\ \A e \in last.flashcards :
              \A f \in flashcards :
                  f.card_id = e.card_id =>
                      /\ f.note_id \in DOMAIN notes
                      /\ notes[f.note_id].user_id = last.user_id

\* C5 witness: the view function has answered 404 for a note of another user
\* that has flashcards.
C5_Witness ==
    /\ last.op = "start_quiz"
    /\ last.note_id \in DOMAIN notes
    /\ notes[last.note_id].user_id # last.user_id
    /\ CardsOfNote(last.note_id) # {}
    /\ last.status = HTTP_NOT_FOUND

\* C6: POST /quiz/start/<note_id> by the logged-in owner of a note with
\* flashcards is answered 200 with one entry (card_id, question) per flashcard.
C6_StartQuizAnswers200 ==
    (/\ last.op = "POST /quiz/start"
     /\ ~NoQuizFor(last.user_id, last.note_id)) =>
        /\ last.status = HTTP_OK
        /\ Cardinality(last.flashcards) = Cardinality(CardsOfNote(last.note_id))
        /\ \A f \in CardsOfNote(last.note_id) :
              \E e \in last.flashcards :
                  e.card_id = f.card_id /\ e.question = f.question

\* The rows of a set of flashcards that belong to a note.
RowsOf(rows, note_id) == { f \in rows : f.note_id = note_id }

\* The questions and answers of a set of flashcards, with multiplicity.
Content(rows) ==
    LET pairs == { <<f.question, f.answer>> : f \in rows }
    IN  [ p \in pairs |->
            Cardinality({ f \in rows : <<f.question, f.answer>> = p }) ]

\* The questions and answers of a flashcards_data list, with multiplicity.
DataContent(flashcards_data) ==
    LET idx == 1..Len(flashcards_data)
        pairs == { <<flashcards_data[i].question, flashcards_data[i].answer>> : i \in idx }
    IN  [ p \in pairs |->
            Cardinality({ i \in idx :
                <<flashcards_data[i].question, flashcards_data[i].answer>> = p }) ]

\* C7: a second save_flashcards with the same note and the same N cards, right
\* after a first one, leaves N flashcards with the same questions and answers.
C7_SaveFlashcardsIdempotent ==
    [][ (/\ last.op = "save_flashcards"
         /\ last.status = "ok"
         /\ last'.op = "save_flashcards"
         /\ last'.status = "ok"
         /\ last'.note_id = last.note_id
         /\ last'.flashcards_data = last.flashcards_data) =>
            /\ Content(RowsOf(flashcards', last.note_id))
                  = Content(RowsOf(flashcards, last.note_id))
            /\ Cardinality(RowsOf(flashcards', last.note_id))
                  = Len(last.flashcards_data) ]_vars

\* C7 witness: a two-card list has been saved twice in a row for a note.
C7_Witness ==
    /\ last.op = "save_flashcards"
    /\ last.status = "ok"
    /\ last.again
    /\ Len(last.flashcards_data) = 2

\* The call that has just returned replaced the flashcards of a note.
Replaced ==
    \/ last'.op = "save_flashcards" /\ last'.status = "ok"
    \/ last'.op = "generate_flashcard" /\ last'.status = HTTP_CREATED

\* C8: after a successful replacement the note has one row per provided card,
\* with its question and answer, learned = FALSE, times_reviewed = 0 and
\* last_studied = NULL, and none of the rows it had before.
C8_ReplacementStoresExactlyTheCards ==
    [][ Replaced =>
          LET n == last'.note_id
              data == last'.flashcards_data
              rows == RowsOf(flashcards', n)
          IN  /\ Cardinality(rows) = Len(data)
              /\ Content(rows) = DataContent(data)
              /\ \A r \in rows :
                    /\ r.learned = FALSE
                    /\ r.times_reviewed = 0
                    /\ r.last_studied = NULL
              /\ \A f \in RowsOf(flashcards, n) :
                    \A r \in flashcards' : r.card_id # f.card_id ]_vars

\* C8 witness: two cards have replaced the flashcards a note had.
C8_Witness ==
    /\ last.op = "save_flashcards"
    /\ last.status = "ok"
    /\ last.existing > 0
    /\ Len(last.flashcards_data) = 2

\* The call that has just returned is a replacement that failed.
ReplacementFailed ==
    \/ last'.op = "save_flashcards" /\ last'.status \in {"KeyError", "commit failed"}
    \/ last'.op = "generate_flashcard" /\ last'.status = HTTP_INTERNAL_SERVER_ERROR

\* C9: a replacement that fails, while inserting or at commit, persists
\* nothing: the flashcards (and the quiz rows) are those before the call.
C9_FailedReplacementPersistsNothing ==
    [][ ReplacementFailed =>
          /\ flashcards' = flashcards
          /\ quizzes' = quizzes ]_vars

\* C9 witness: save_flashcards has failed on the second of two cards for a
\* note that has flashcards.
C9_Witness ==
    /\ last.op = "save_flashcards"
    /\ last.status = "KeyError"
    /\ last.existing > 0
    /\ Len(last.flashcards_data) = 2
    /\ WellFormed(<<last.flashcards_data[1]>>)
    /\ CardsOfNote(last.note_id) # {}

C11_GraderFailureIsDegradedResult ==
    (/\ last.op = "check_user_answer_with_llm"
     /\ last.llm \in {NoKey, ApiError}) =>
        /\ last.raised = NULL
        /\ last.result.evaluation = "Could not evaluate answer."

\* C12: when two submissions of one user for two different flashcards of a
\* note ran at the same time and both have committed, both answers are
\* recorded and get_progress counts both flashcards as answered.
C12_ConcurrentSubmissionsBothCount ==
    pending = {} =>
        \A u \in UserIds, n \in NoteIds :
            Cardinality(SubmittedCards(u, n)) = 2 =>
                /\ \A f \in SubmittedCards(u, n) :
                      \E q \in quizzes :
                          /\ q.user_id = u
                          /\ q.card_id = f.card_id
                          /\ q.answered = TRUE
                /\ get_progress(u, n).answered_flashcards = 2

\* The operations that are request handlers opening a database session.
SessionHandlers ==
    {"start_quiz", "create_user", "get_user", "update_user", "delete_user",
     "request_password_reset"}

\* C13: a request handler that opened a session has closed it when it
\* returns, whether it answers success, an early 4xx or fails.
C13_SessionClosedOnEveryExit ==
    last.op \in SessionHandlers => last.session_closed

\* The notes of a user.
NotesOfUser(user_id) == { n \in DOMAIN notes : notes[n].user_id = user_id }

\* C14: after delete_note has deleted a note, or delete_user has deleted the
\* owner of notes, no flashcard that belonged to such a note is in the store.
C14_FlashcardsDeletedWithNote ==
    [][ /\ (last'.op = "delete_note" /\ last'.status = HTTP_OK) =>
              \A f \in RowsOf(flashcards, last'.note_id) :
                  \A g \in flashcards' : g.card_id # f.card_id
        /\ (last'.op = "delete_user" /\ last'.status = HTTP_OK) =>
              \A n \in NotesOfUser(last'.user_id) :
                  \A f \in RowsOf(flashcards, n) :
                      \A g \in flashcards' : g.card_id # f.card_id ]_vars

\* The call that has just returned is a get-note, update-note or delete-note
\* by a user who does not own the note it names.
ForeignNoteCall ==
    /\ last'.op \in {"get_note", "update_note", "delete_note"}
    /\ last'.note_id \in DOMAIN notes
    /\ notes[last'.note_id].user_id # last'.user_id

\* C15: get-note, update-note and delete-note by a logged-in user who does
\* not own the note answer 404, return nothing of the note and leave the
\* note (and its flashcards) unchanged.
C15_ForeignNoteNotAccessible ==
    [][ ForeignNoteCall =>
          /\ last'.status = HTTP_NOT_FOUND
          /\ last'.body = "NOTE_NOT_FOUND"
          /\ notes' = notes
          /\ flashcards' = flashcards ]_vars

\* C15 witness: an update of another user's note has been answered 404.
C15_Witness ==
    /\ last.op = "update_note"
    /\ last.note_id \in DOMAIN notes
    /\ notes[last.note_id].user_id # last.user_id
    /\ last.status = HTTP_NOT_FOUND

\* No two users share a username or an email.
UniqueUsers ==
    \A a \in DOMAIN users, b \in DOMAIN users :
        a # b => /\ users[a].username # users[b].username
                 /\ users[a].email # users[b].email

\* C16: no two users ever share a username or an email, and a create-user
\* request whose username or email belongs to an existing user is answered 400
\* and creates no user.
C16_UsernamesAndEmailsUnique ==
    [][ /\ UniqueUsers'
        /\ (/\ last'.op = "create_user"
            /\ \E id \in DOMAIN users :
                  \/ users[id].username = last'.username
                  \/ users[id].email = last'.email) =>
              /\ last'.status = HTTP_BAD_REQUEST
              /\ users' = users ]_vars

\* C16 witness: a create-user request with a new username and the email of an
\* existing user has been answered 400.
C16_Witness ==
    /\ last.op = "create_user"
    /\ last.status = HTTP_BAD_REQUEST
    /\ last.error = "EMAIL_ALREADY_EXISTS"
    /\ \A id \in DOMAIN users : users[id].username # last.username
    /\ \E id \in DOMAIN users : users[id].email = last.email

\* C17: one grading request, made directly or by submit_answer, calls the
\* text-generation capability at most once, also when the call fails.
C17_GraderCallsAtMostOnce ==
    /\ last.op = "check_user_answer_with_llm" =>
          /\ last.llm_calls <= 1
          /\ last.llm = ApiError => last.llm_calls = 1
    /\ last.op = "submit_answer" => last.llm_calls <= 1

\* C17 witness: a submit_answer whose grading call failed has stored the
\* fallback evaluation after one call.
C17_Witness ==
    /\ last.op = "submit_answer"
    /\ last.status = "ok"
    /\ last.result.evaluation = "Could not evaluate answer."
    /\ last.llm_calls = 1

\* C18: for a note with zero flashcards get_progress returns normally, with
\* total_flashcards = 0 and progress_percent = 0.
C18_EmptyNoteProgressIsZero ==
    (last.op = "get_progress" /\ CardsOfNote(last.note_id) = {}) =>
        /\ last.status = "ok"
        /\ last.result.total_flashcards = 0
        /\ last.result.progress_percent = 0

\* C18 witness: get_progress has answered for a stored note without
\* flashcards while another note has flashcards.
C18_Witness ==
    /\ last.op = "get_progress"
    /\ last.note_id \in DOMAIN notes
    /\ CardsOfNote(last.note_id) = {}
    /\ flashcards # {}
    /\ last.result.progress_percent = 0

\* The language submit_answer is to grade a flashcard in: the language of
\* its note, "en" when the note has none or the flashcard has no note.
RecordedLanguage(f) ==
    IF f.note_id \in DOMAIN notes /\ notes[f.note_id].language \notin {NULL, ""}
    THEN notes[f.note_id].language
    ELSE "en"

\* C19: submit_answer calls the grader with the language of the flashcard's
\* note, and with "en" when that note has no language or the flashcard has
\* no note.
C19_GradedInNoteLanguageOrEn ==
    (last.op = "submit_answer" /\ last.card_id \in StoredCardIds) =>
        \A f \in flashcards :
            f.card_id = last.card_id => last.language = RecordedLanguage(f)

\* A generate-flashcard request that names no note of the requester with a
\* non-empty AI summary.
NoSummaryFor(user_id, note_id) ==
    \/ note_id \notin DOMAIN notes
    \/ notes[note_id].user_id # user_id
    \/ notes[note_id].ai_summary \in {NULL, ""}

\* C20: a generate-flashcard request for a note that is missing, not owned by
\* the requester or without AI summary is answered 404 and changes no
\* flashcard; every flashcard a request stores belongs to the requested
\* note, which had a non-empty AI summary at that moment.
C20_FlashcardsOnlyFromSummary ==
    [][ last'.op = "generate_flashcard" =>
          /\ NoSummaryFor(last'.user_id, last'.note_id) =>
                 (last'.status = HTTP_NOT_FOUND /\ flashcards' = flashcards)
          /\ \A f \in flashcards' \ flashcards :
                 /\ f.note_id = last'.note_id
                 /\ ~NoSummaryFor(last'.user_id, last'.note_id) ]_vars

\* Note 2 starts without summary: once generate_summary has stored one, a
\* request of its owner stored flashcards for it.
C20_Witness ==
    /\ last.op = "generate_flashcard"
    /\ last.note_id = 2
    /\ last.status = HTTP_CREATED
    /\ \E f \in flashcards : f.note_id = 2
    /\ notes[2].ai_summary \notin {NULL, ""}

\* What the Answer Grader produces for the flashcard and answer of the last
\* submit_answer call under the outcome of the text-generation capability.
GraderResult ==
    LET f == CHOOSE f \in flashcards : f.card_id = last.card_id
    IN  check_user_answer_with_llm(f.question, f.answer, last.user_answer,
                                   last.language, last.llm).result

\* C21: a successful submit_answer returns exactly the result the Answer
\* Grader produced, and the ai_feedback of the quiz row it wrote is that
\* result's evaluation text.
C21_FeedbackReturnedAndStored ==
    (last.op = "submit_answer" /\ last.status = "ok") =>
        /\ last.result = GraderResult
        /\ \E q \in quizzes : q.quiz_id = last.quiz_id
        /\ \A q \in quizzes :
              q.quiz_id = last.quiz_id => q.ai_feedback = GraderResult.evaluation

\* A submission graded with the fallback evaluation has been stored and
\* returned.
C21_Witness ==
    /\ last.op = "submit_answer"
    /\ last.status = "ok"
    /\ last.llm = ApiError
    /\ \E q \in quizzes :
          q.quiz_id = last.quiz_id /\ q.ai_feedback = "Could not evaluate answer."

\* C22: get_progress, called directly, through the view function or through
\* GET /quiz/progress/<note_id>, changes no flashcard, quiz, score, note or
\* user row.
C22_GetProgressReadOnly ==
    [][ last'.op \in {"get_progress", "get_progress_view", "GET /quiz/progress"} =>
          /\ flashcards' = flashcards
          /\ quizzes' = quizzes
          /\ scores' = scores
          /\ notes' = notes
          /\ users' = users
          /\ next_card_id' = next_card_id ]_vars

\* The progress of a note with flashcards, answered quiz rows and a score row
\* has been read.
C22_Witness ==
    /\ last.op = "get_progress"
    /\ last.result.total_flashcards > 0
    /\ last.result.answered_flashcards > 0
    /\ scores # {}

\* C23: every quiz row and every score row references a stored flashcard:
\* the rows of a flashcard go with it when the flashcards of its note are
\* replaced or deleted.
C23_NoDanglingAttempt ==
    /\ \A q \in quizzes : q.card_id \in StoredCardIds
    /\ \A s \in scores : s.card_id \in StoredCardIds

\* A replacement has deleted flashcards together with a quiz row of theirs.
C23_Witness ==
    /\ last.op = "save_flashcards"
    /\ last.status = "ok"
    /\ last.existing > 0
    /\ last.cascaded > 0

\* C24: submit_answer changes only quiz rows of the submitting user: the rows
\* of every other user are after the call what they were before it.
C24_SubmitChangesOwnQuizOnly ==
    [][ last'.op = "submit_answer" =>
          \A q \in quizzes : q.user_id # last'.user_id => q \in quizzes' ]_vars

\* C25: get_progress for a note the user does not own returns what it
\* returns for a note that does not exist (total 0, answered 0, percent 0),
\* whatever flashcards the note has.
C25_ForeignNoteProgressIsEmpty ==
    ( /\ last.op \in {"get_progress", "get_progress_view"}
      /\ last.note_id \in DOMAIN notes
      /\ notes[last.note_id].user_id # last.user_id ) =>
        /\ \A n \in NoteIds \ DOMAIN notes :
              last.result = get_progress(last.user_id, n)
        /\ last.result = [total_flashcards |-> 0, answered_flashcards |-> 0,
                          progress_percent |-> 0]

\* C26: for a note with a summary and the same generator output, the route
\* handler generate_flashcard and LLMService.generate_flashcards leave the
\* same flashcards for the note, also when the generator returns the empty
\* list.
C26_RouteAndServiceAgree ==
    \A n \in DOMAIN notes, gen \in GeneratorOutcomes :
        LET generated == generate_flashcards_from_summary(
                             notes[n].ai_summary, notes[n].language, gen)
        IN  (notes[n].ai_summary \notin {NULL, ""} /\ generated.raised = NULL) =>
                RowsOf(FlashcardsAfterRoute(n, generated.result), n)
                    = RowsOf(FlashcardsAfterService(n, generated.result), n)

\* The stored quiz records of (user, note) that are not completed.
ActiveQuizzes(user_id, note_id) ==
    { q \in quizzes :
        /\ {"note_id", "completed"} \subseteq DOMAIN q
        /\ q.user_id = user_id
        /\ q.note_id = note_id
        /\ q.completed = FALSE }

\* C27: a start_or_get_active_quiz call returns the stored quiz record of its
\* (user, note) that is not completed, and no (user, note) ever has two such
\* records.
C27_OneActiveQuizReturned ==
    /\ \A u \in UserIds, n \in NoteIds : Cardinality(ActiveQuizzes(u, n)) <= 1
    /\ last.op = "start_or_get_active_quiz" =>
          /\ last.status = "ok"
          /\ last.returned # {}
          /\ last.returned \subseteq ActiveQuizzes(last.user_id, last.note_id)

\* C28: in the loop that asks for the next flashcard of a quiz and records
\* the returned card with save_user_answer, recording a returned card leaves
\* one unanswered card less (so None comes after exactly N steps), and the
\* call after a recording never returns the recorded card again.  A commit
\* the database refuses is not a recording.
C28_RecordedCardNotReturnedAgain ==
    [][ /\ ( /\ last.op = "get_next_flashcard_for_quiz"
             /\ last'.op = "save_user_answer"
             /\ last'.status # "commit failed"
             /\ last'.quiz_id = last.quiz_id
             /\ \E e \in last.returned : e.card_id = last'.card_id ) =>
                Cardinality(UnansweredCards(scores', last.quiz_id, last.note_id))
                    = Cardinality(UnansweredCards(scores, last.quiz_id, last.note_id)) - 1
        /\ ( /\ last.op = "save_user_answer"
             /\ last.status # "commit failed"
             /\ last'.op = "get_next_flashcard_for_quiz"
             /\ last'.quiz_id = last.quiz_id ) =>
                \A e \in last'.returned : e.card_id # last.card_id ]_vars

\* C29: for the quiz of a user on a note with at least one flashcard,
\* get_next_flashcard_for_quiz returns None exactly when get_progress reports
\* answered_flashcards = total_flashcards.
C29_CompletionSignalsAgree ==
    \A q \in quizzes, n \in DOMAIN notes :
        (\E f \in CardsOfNote(n) : f.card_id = q.card_id) =>
            LET progress == get_progress(q.user_id, n)
            IN  (UnansweredCards(scores, q.quiz_id, n) = {})
                    <=> (progress.answered_flashcards = progress.total_flashcards)

\* The flashcard entries the last call handed out.
EntriesReturned ==
    IF last.op = "start_quiz" THEN last.flashcards
    ELSE IF last.op = "get_next_flashcard_for_quiz" THEN last.returned
    ELSE {}

\* C30: the flashcard entries returned by get_flashcards_for_quiz (through
\* start_quiz) and by get_next_flashcard_for_quiz have the keys card_id,
\* question and type only, and none of their values is the answer text of
\* the flashcard.
C30_EntriesWithoutAnswer ==
    \A e \in EntriesReturned :
        /\ DOMAIN e = {"card_id", "question", "type"}
        /\ \A f \in flashcards :
              f.card_id = e.card_id => (e.question # f.answer /\ e.type # f.answer)

\* A quiz has been started on a note with flashcards and the entries handed out.
C30_Witness ==
    /\ last.op = "start_quiz"
    /\ last.status = HTTP_OK
    /\ last.flashcards # {}

====
